---------------------------- MODULE Spec2Model ----------------------------
(***************************************************************************)
(* State-machine model of the voice session manager in src/App.tsx:        *)
(* startSession / endSession, the transport callbacks (onopen, onmessage,  *)
(* onclose, onerror), the playback scheduling and the transcript           *)
(* aggregation of handleLiveMessage / updateLastMessage.                   *)
(*                                                                         *)
(* Time is counted in ticks; a text is a sequence of tokens, and the       *)
(* fragment carried by the n-th inbound message is the one-token text      *)
(* <<n>> (or the empty text), so that concatenation order is observable.   *)
(***************************************************************************)
EXTENDS Integers, Sequences, FiniteSets, TLC

\* ------------------------------------------------------------- bounds
\* startSession invocations that pass the precondition checks
MaxStarts == 2
\* inbound server messages delivered to onmessage in the one-session
\* specification, and in the lifecycle specification
MaxMsgs == 2
MaxPlainMsgs == 1
\* ticks of the output context's currentTime
MaxClock == 2
\* longest decoded audio chunk, in ticks
MaxDur == 2

Attempts == 1..MaxStarts

\* --------------------------------------------------------- pure helpers
Max(a, b) == IF a >= b THEN a ELSE b

Last(s) == s[Len(s)]

Front(s) == SubSeq(s, 1, Len(s) - 1)

\* String.prototype.trim on a text of characters: strips leading and
\* trailing blanks.
RECURSIVE TrimLeft(_)
TrimLeft(s) == IF s # <<>> /\ Head(s) = " " THEN TrimLeft(Tail(s)) ELSE s

RECURSIVE TrimRight(_)
TrimRight(s) == IF s # <<>> /\ Last(s) = " " THEN TrimRight(Front(s)) ELSE s

\* Mutant of trim: the text as it is.
untrimmed(s) == s

trim(s) == TrimRight(TrimLeft(s))

\* JavaScript truthiness of a string: the empty string is falsy.
Truthy(s) == s # <<>>

\* The scenarios of the setup screen (0 stands for null).
NoScenario == 0
Coffee == 1
CustomTexts == { <<>>, <<" ">>, <<"x">> }

\* const finalScenario = customScenario.trim() ? {custom} : selectedScenario
finalScenario(custom, selected) ==
    IF Truthy(trim(custom)) THEN [id |-> "custom", description |-> custom]
    ELSE IF selected = NoScenario THEN [id |-> "null", description |-> <<>>]
    ELSE [id |-> "predefined", description |-> <<>>]


\* ------------------------------------------------- transcript aggregator
\* Mutants of updateLastMessage: one that always appends, one that merges
\* into the last partial message whatever its role, one that merges into the
\* last message of the role whether or not it is partial.
updateAlwaysAppends(prev, role, text, isPartial, now) ==
    Append(prev, [id |-> now, role |-> role, text |-> text,
                  isPartial |-> isPartial])

updateIgnoresRole(prev, role, text, isPartial, now) ==
    IF prev # <<>> /\ Last(prev).isPartial
    THEN Append(Front(prev),
                [Last(prev) EXCEPT !.text = text, !.isPartial = isPartial])
    ELSE Append(prev, [id |-> now, role |-> role, text |-> text,
                       isPartial |-> isPartial])

updateIgnoresPartial(prev, role, text, isPartial, now) ==
    IF prev # <<>> /\ Last(prev).role = role
    THEN Append(Front(prev),
                [Last(prev) EXCEPT !.text = text, !.isPartial = isPartial])
    ELSE Append(prev, [id |-> now, role |-> role, text |-> text,
                       isPartial |-> isPartial])

\* updateLastMessage(role, text, isPartial), the updater given to
\* setMessages; now is the value Date.now() returns.
updateLastMessage(prev, role, text, isPartial, now) ==
    IF prev # <<>> /\ Last(prev).role = role /\ Last(prev).isPartial
    THEN Append(Front(prev),
                [Last(prev) EXCEPT !.text = text, !.isPartial = isPartial])
    ELSE Append(prev, [id |-> now, role |-> role, text |-> text,
                       isPartial |-> isPartial])

\* An optional field of a server message is a sequence of length 0 or 1.
Absent == <<>>
Present(f) == f # <<>>

\* The transcript state handleLiveMessage works on.
TState(msgs, inBuf, outBuf, mode) ==
    [messages |-> msgs, inBuf |-> inBuf, outBuf |-> outBuf, audioMode |-> mode]

\* if (serverContent?.inputTranscription) { ... }
inputTranscription(t, m, now) ==
    IF Present(m.input)
    THEN LET buf == t.inBuf \o m.input[1]
         IN [t EXCEPT !.audioMode = "listening",
                      !.inBuf = buf,
                      !.messages = updateLastMessage(@, "user", buf, TRUE, now)]
    ELSE t

\* if (serverContent?.outputTranscription) { ... }
outputTranscription(t, m, now) ==
    IF Present(m.output)
    THEN LET buf == t.outBuf \o m.output[1]
         IN [t EXCEPT !.outBuf = buf,
                      !.messages = updateLastMessage(@, "model", buf, TRUE, now)]
    ELSE t

\* Mutant of commitUser: the buffer is not reset.
commitUserKeepsBuffer(t, now) ==
    IF Truthy(t.inBuf)
    THEN [t EXCEPT !.messages = updateLastMessage(@, "user", t.inBuf, FALSE, now)]
    ELSE t

commitUser(t, now) ==
    IF Truthy(t.inBuf)
    THEN [t EXCEPT !.messages = updateLastMessage(@, "user", t.inBuf, FALSE, now),
                   !.inBuf = <<>>]
    ELSE t

commitModel(t, now) ==
    IF Truthy(t.outBuf)
    THEN [t EXCEPT !.messages = updateLastMessage(@, "model", t.outBuf, FALSE, now),
                   !.outBuf = <<>>]
    ELSE t

\* if (serverContent?.turnComplete) { ... }
turnComplete(t, m, now) ==
    IF m.turnComplete THEN commitModel(commitUser(t, now), now) ELSE t

\* Sections 2 and 3 of handleLiveMessage, in the order of the code.
handleTranscriptions(t, m, now) ==
    turnComplete(outputTranscription(inputTranscription(t, m, now), m, now), m, now)

\* ------------------------------------------------------- server messages
\* The payloads the n-th inbound message can carry. audio: "none", "ok"
\* (decodes to a chunk of dur ticks) or "bad" (corrupted base64).
Fragments(n) == { Absent, << <<>> >>, << <<n>> >> }

Audio == { [kind |-> "none", dur |-> 0], [kind |-> "bad", dur |-> 0] }
         \cup { [kind |-> "ok", dur |-> d] : d \in 1..MaxDur }

ServerMessages(n) ==
    { [arr |-> n, audio |-> a, input |-> i, output |-> o, turnComplete |-> tc] :
        a \in Audio, i \in Fragments(n), o \in Fragments(n), tc \in BOOLEAN }

\* The messages of the two-session specification: audio and user fragments.
PlainMessages(n) ==
    { m \in ServerMessages(n) :
        /\ m.audio.kind # "bad"
        /\ m.input # << <<>> >>
        /\ m.output = Absent
        /\ ~m.turnComplete }

\* ---------------------------------------------------------------- state
VARIABLES
    \* useState
    currentStep, status, messages, audioMode,
    \* useRef
    sessionRef, inputContextRef, outputContextRef, nextStartTimeRef,
    sourcesRef, streamRef, scriptProcessorRef,
    currentInputTransRef, currentOutputTransRef,
    \* process.env.API_KEY
    API_KEY,
    \* the platform: startSession continuations, transport connections,
    \* microphone streams, script processors, buffer sources, timers, decodes
    startPc, conn, closeReq, mic, proc, sources, timers, pending,
    \* clocks and bounded counters
    now, currentTime, starts, arrivals,
    \* history: chunks started this session, transcript events applied this
    \* session, last call of the presentation layer, whether a frame was sent
    \* while the status was not connected
    scheduled, hist, lastCall, frameOutside

uiVars == <<currentStep, status, messages, audioMode>>
refVars == <<sessionRef, inputContextRef, outputContextRef, nextStartTimeRef,
             sourcesRef, streamRef, scriptProcessorRef,
             currentInputTransRef, currentOutputTransRef>>
platformVars == <<startPc, conn, closeReq, mic, proc, sources, timers, pending>>
clockVars == <<now, currentTime, starts, arrivals>>
histVars == <<scheduled, hist, lastCall, frameOutside>>
vars == <<uiVars, API_KEY, refVars, platformVars, clockVars, histVars>>

NullCtx == [id |-> 0, state |-> "null"]
NoProc == [state |-> "none", ctx |-> 0]

Init ==
    /\ currentStep = "setup"
    /\ status = "disconnected"
    /\ messages = <<>>
    /\ audioMode = "idle"
    /\ sessionRef = 0
    /\ inputContextRef = NullCtx
    /\ outputContextRef = NullCtx
    /\ nextStartTimeRef = 0
    /\ sourcesRef = {}
    /\ streamRef = 0
    /\ scriptProcessorRef = 0
    /\ currentInputTransRef = <<>>
    /\ currentOutputTransRef = <<>>
    /\ API_KEY \in BOOLEAN
    /\ startPc = [k \in Attempts |-> "idle"]
    /\ conn = [k \in Attempts |-> "none"]
    /\ closeReq = {}
    /\ mic = [k \in Attempts |-> "none"]
    /\ proc = [k \in Attempts |-> NoProc]
    /\ sources = {}
    /\ timers = 0
    /\ pending = {}
    /\ now = 0
    /\ currentTime = 0
    /\ starts = 0
    /\ arrivals = 0
    /\ scheduled = <<>>
    /\ hist = [clean |-> TRUE, ev |-> <<>>]
    /\ lastCall = "none"
    /\ frameOutside = FALSE

\* --------------------------------------------------------- startSession
\* The outcomes of the two AudioContext constructors.
Devices == { "ok", "inputFails", "outputFails" }

NewCtx(k) == [id |-> k, state |-> "running"]

\* The two precondition checks at the head of startSession; custom and
\* selected are the setup screen's customScenario and selectedScenario.
startAccepted(custom, selected) ==
    /\ API_KEY
    /\ finalScenario(custom, selected).id # "null"

\* startSession up to its first await (getUserMedia), or to its return.
\* The Start button is rendered in the setup step only.
StartSession(custom, selected, dev, maxStarts) ==
    /\ currentStep = "setup"
    /\ IF ~startAccepted(custom, selected)
       THEN /\ lastCall' = "reject"
            /\ UNCHANGED <<uiVars, API_KEY, refVars, platformVars, clockVars,
                           scheduled, hist, frameOutside>>
       ELSE /\ starts < maxStarts
            /\ LET k == starts + 1 IN
               /\ starts' = k
               /\ currentStep' = "session"
               /\ messages' = <<>>
               /\ status' = IF dev = "ok" THEN "connecting" ELSE "error"
               /\ inputContextRef' =
                     IF dev = "inputFails" THEN inputContextRef ELSE NewCtx(k)
               /\ outputContextRef' =
                     IF dev = "ok" THEN NewCtx(k) ELSE outputContextRef
               /\ currentTime' = IF dev = "ok" THEN 0 ELSE currentTime
               /\ nextStartTimeRef' = IF dev = "ok" THEN 0 ELSE nextStartTimeRef
               /\ startPc' = [startPc EXCEPT
                                ![k] = IF dev = "ok" THEN "awaitMic" ELSE "failed"]
            /\ scheduled' = <<>>
            /\ hist' = [clean |-> currentInputTransRef = <<>>
                                  /\ currentOutputTransRef = <<>>,
                        ev |-> <<>>]
            /\ lastCall' = "start"
            /\ UNCHANGED <<audioMode, API_KEY, sessionRef, sourcesRef, streamRef,
                           scriptProcessorRef, currentInputTransRef,
                           currentOutputTransRef, conn, closeReq, mic, proc,
                           sources, timers, pending, now, arrivals, frameOutside>>

\* getUserMedia resolves: streamRef is set and ai.live.connect is called.
MicResolve(k) ==
    /\ startPc[k] = "awaitMic"
    /\ startPc' = [startPc EXCEPT ![k] = "done"]
    /\ mic' = [mic EXCEPT ![k] = "live"]
    /\ streamRef' = k
    /\ conn' = [conn EXCEPT ![k] = "connecting"]
    /\ sessionRef' = k
    /\ UNCHANGED <<uiVars, API_KEY, inputContextRef, outputContextRef,
                   nextStartTimeRef, sourcesRef, scriptProcessorRef,
                   currentInputTransRef, currentOutputTransRef, closeReq, proc,
                   sources, timers, pending, clockVars, histVars>>

\* Mutant of MicReject: the rejection is swallowed and the transport is
\* connected all the same.
MicRejectConnects(k) ==
    /\ startPc[k] = "awaitMic"
    /\ startPc' = [startPc EXCEPT ![k] = "failed"]
    /\ status' = "error"
    /\ conn' = [conn EXCEPT ![k] = "connecting"]
    /\ UNCHANGED <<currentStep, messages, audioMode, API_KEY, refVars,
                   closeReq, mic, proc, sources, timers, pending, clockVars,
                   histVars>>

\* getUserMedia rejects: the catch block sets the status.
MicReject(k) ==
    /\ startPc[k] = "awaitMic"
    /\ startPc' = [startPc EXCEPT ![k] = "failed"]
    /\ status' = "error"
    /\ UNCHANGED <<currentStep, messages, audioMode, API_KEY, refVars, conn,
                   closeReq, mic, proc, sources, timers, pending, clockVars,
                   histVars>>

\* ------------------------------------------------- transport callbacks
\* setupAudioInput(sessionPromise) for the session of attempt k: the new
\* script processor, or none when the function returns early.
setupAudioInput(k) ==
    IF inputContextRef.state = "null" \/ streamRef = 0
    THEN NoProc
    ELSE [state |-> "on", ctx |-> inputContextRef.id]

\* onopen
ConnOpen(k) ==
    /\ conn[k] = "connecting"
    /\ conn' = [conn EXCEPT ![k] = "open"]
    /\ status' = "connected"
    /\ LET p == setupAudioInput(k) IN
         IF p.state = "on"
         THEN /\ proc' = [proc EXCEPT ![k] = p]
              /\ scriptProcessorRef' = k
         ELSE UNCHANGED <<proc, scriptProcessorRef>>
    /\ UNCHANGED <<currentStep, messages, audioMode, API_KEY, sessionRef,
                   inputContextRef, outputContextRef, nextStartTimeRef,
                   sourcesRef, streamRef, currentInputTransRef,
                   currentOutputTransRef, startPc, closeReq, mic, sources,
                   timers, pending, clockVars, histVars>>

\* onerror
ConnError(k) ==
    /\ conn[k] \in {"connecting", "open"}
    /\ conn' = [conn EXCEPT ![k] = "errored"]
    /\ status' = "error"
    /\ UNCHANGED <<currentStep, messages, audioMode, API_KEY, refVars, startPc,
                   closeReq, mic, proc, sources, timers, pending, clockVars,
                   histVars>>

\* onclose: the socket closes, on session.close() or from the server's side.
ConnClose(k) ==
    /\ conn[k] \in {"open", "errored"}
    /\ conn' = [conn EXCEPT ![k] = "closed"]
    /\ closeReq' = closeReq \ {k}
    /\ status' = "disconnected"
    /\ UNCHANGED <<currentStep, messages, audioMode, API_KEY, refVars, startPc,
                   mic, proc, sources, timers, pending, clockVars, histVars>>

\* scriptProcessor.onaudioprocess of the processor made for session k:
\* session.sendRealtimeInput
CaptureFrame(k) ==
    /\ proc[k].state = "on"
    /\ inputContextRef.id = proc[k].ctx
    /\ inputContextRef.state = "running"
    /\ frameOutside' = (frameOutside \/ status # "connected")
    /\ UNCHANGED <<uiVars, API_KEY, refVars, platformVars, clockVars,
                   scheduled, hist, lastCall>>

\* ---------------------------------------------------- handleLiveMessage
\* decode(base64Audio) of utils/audioUtils: base64 decoding, which fails on
\* a corrupted payload.
decodeFails(a) == a.kind = "bad"

\* decodeAudioData(bytes, ctx, rate, channels) of utils/audioUtils: an
\* asynchronous operation that resolves to the decoded buffer; its duration.
decodeAudioData(a) == a.dur

\* Mutant of adjustStartTime: the cursor is set to the clock.
adjustToClock(next, clock) == clock

\* nextStartTimeRef.current = Math.max(nextStartTimeRef.current, currentTime)
adjustStartTime(next, clock) == Max(next, clock)

\* nextStartTimeRef.current += audioBuffer.duration
advanceStartTime(next, dur) == next + dur

\* The transcript events a message applies, in the order of the code.
Events(m) ==
    (IF Present(m.input) THEN << [kind |-> "user", text |-> m.input[1]] >> ELSE <<>>)
    \o (IF Present(m.output) THEN << [kind |-> "model", text |-> m.output[1]] >> ELSE <<>>)
    \o (IF m.turnComplete THEN << [kind |-> "tc", text |-> <<>>] >> ELSE <<>>)

\* Sections 2 and 3 of handleLiveMessage applied to the current state; date
\* is what Date.now() returns while this handler runs.
Transcribe(m, date) ==
    LET t == handleTranscriptions(
                 TState(messages, currentInputTransRef, currentOutputTransRef,
                        audioMode), m, date)
    IN /\ now' = date
       /\ messages' = t.messages
       /\ currentInputTransRef' = t.inBuf
       /\ currentOutputTransRef' = t.outBuf
       /\ hist' = [hist EXCEPT !.ev = @ \o Events(m)]
       /\ audioMode' = t.audioMode

\* onmessage of the connection of attempt k: handleLiveMessage(m) up to its
\* await, or to its end when the message carries no audio.
DeliverMsg(k, m, date, maxMsgs) ==
    /\ conn[k] = "open"
    /\ arrivals < maxMsgs
    /\ m.arr = arrivals + 1
    /\ arrivals' = m.arr
    /\ IF m.audio.kind # "none" /\ outputContextRef.state # "null"
       THEN /\ audioMode' = "speaking"
            /\ nextStartTimeRef' =
                  adjustStartTime(nextStartTimeRef, currentTime)
            \* decode(base64Audio) throws on a corrupted payload: the
            \* handler's promise rejects and nothing after it runs
            /\ pending' = IF decodeFails(m.audio) THEN pending
                          ELSE pending \cup {m}
            \* the clock is not read before the await
            /\ date = now
            /\ UNCHANGED <<messages, currentInputTransRef,
                           currentOutputTransRef, hist, now>>
       ELSE /\ Transcribe(m, date)
            /\ UNCHANGED <<nextStartTimeRef, pending>>
    /\ UNCHANGED <<currentStep, status, API_KEY, sessionRef, inputContextRef,
                   outputContextRef, sourcesRef, streamRef, scriptProcessorRef,
                   startPc, conn, closeReq, mic, proc, sources, timers,
                   currentTime, starts, scheduled, lastCall, frameOutside>>

\* decodeAudioData resolves: handleLiveMessage(m) from its await to its end.
DecodeResolve(m, date) ==
    /\ m \in pending
    /\ pending' = pending \ {m}
    /\ LET duration == decodeAudioData(m.audio) IN
       /\ sources' = sources \cup
             { [id |-> m.arr, start |-> nextStartTimeRef, dur |-> duration,
                ctx |-> outputContextRef.id, stopped |-> FALSE] }
       /\ scheduled' = Append(scheduled,
             [arr |-> m.arr, start |-> nextStartTimeRef, dur |-> duration])
       /\ nextStartTimeRef' = advanceStartTime(nextStartTimeRef, duration)
    /\ sourcesRef' = sourcesRef \cup {m.arr}
    /\ Transcribe(m, date)
    /\ UNCHANGED <<currentStep, status, API_KEY, sessionRef, inputContextRef,
                   outputContextRef, streamRef, scriptProcessorRef, startPc,
                   conn, closeReq, mic, proc, timers, currentTime, starts,
                   arrivals, lastCall, frameOutside>>

\* source.onended: playback reached the end of the buffer, or stop() was
\* called on the source.
Ended(s) ==
    /\ s \in sources
    /\ \/ s.stopped
       \/ /\ s.ctx = outputContextRef.id
          /\ outputContextRef.state = "running"
          /\ currentTime >= s.start + s.dur
    /\ sources' = sources \ {s}
    /\ sourcesRef' = sourcesRef \ {s.id}
    /\ timers' = IF sourcesRef' = {} THEN timers + 1 ELSE timers
    /\ UNCHANGED <<uiVars, API_KEY, sessionRef, inputContextRef,
                   outputContextRef, nextStartTimeRef, streamRef,
                   scriptProcessorRef, currentInputTransRef,
                   currentOutputTransRef, startPc, conn, closeReq, mic, proc,
                   pending, clockVars, histVars>>

\* setTimeout(() => setAudioMode('listening'), 200) expires
TimerFire ==
    /\ timers > 0
    /\ timers' = timers - 1
    /\ audioMode' = "listening"
    /\ UNCHANGED <<currentStep, status, messages, API_KEY, refVars, startPc,
                   conn, closeReq, mic, proc, sources, pending, clockVars,
                   histVars>>

\* ----------------------------------------------------------- endSession
closeCtx(c) == IF c.state = "null" THEN c ELSE [c EXCEPT !.state = "closed"]

\* Mutant of resetBuffer: the buffer is kept.
keepBuffer(buf) == buf

\* currentInputTransRef.current = ''; currentOutputTransRef.current = ''
resetBuffer(buf) == <<>>

EndSession ==
    \* Close Live Session
    /\ closeReq' = IF sessionRef # 0 /\ conn[sessionRef] # "closed"
                   THEN closeReq \cup {sessionRef} ELSE closeReq
    /\ sessionRef' = 0
    \* Stop Audio Stream
    /\ mic' = IF streamRef # 0 THEN [mic EXCEPT ![streamRef] = "stopped"] ELSE mic
    /\ streamRef' = 0
    \* Stop Audio Processing
    /\ IF scriptProcessorRef # 0 /\ inputContextRef.state # "null"
       THEN /\ proc' = [proc EXCEPT ![scriptProcessorRef].state = "off"]
            /\ scriptProcessorRef' = 0
       ELSE UNCHANGED <<proc, scriptProcessorRef>>
    \* Stop Playing Audio
    /\ sources' = { IF s.id \in sourcesRef THEN [s EXCEPT !.stopped = TRUE] ELSE s :
                    s \in sources }
    /\ sourcesRef' = {}
    \* Close Contexts
    /\ inputContextRef' = closeCtx(inputContextRef)
    /\ outputContextRef' = closeCtx(outputContextRef)
    /\ status' = "disconnected"
    /\ currentStep' = "setup"
    /\ audioMode' = "idle"
    /\ currentInputTransRef' = resetBuffer(currentInputTransRef)
    /\ currentOutputTransRef' = resetBuffer(currentOutputTransRef)
    /\ hist' = IF hist.ev = <<>> THEN [hist EXCEPT !.clean = TRUE]
               ELSE IF Last(hist.ev).kind = "reset" THEN hist
               ELSE [hist EXCEPT !.ev = Append(@, [kind |-> "reset", text |-> <<>>])]
    /\ lastCall' = "end"
    /\ UNCHANGED <<messages, API_KEY, nextStartTimeRef, startPc, conn, timers,
                   pending, clockVars, scheduled, frameOutside>>

\* ---------------------------------------------------------------- time
\* The clock of the output context advances while the context runs.
Tick ==
    /\ outputContextRef.state = "running"
    /\ currentTime < MaxClock
    /\ currentTime' = currentTime + 1
    /\ UNCHANGED <<uiVars, API_KEY, refVars, platformVars, now, starts,
                   arrivals, histVars>>

\* ------------------------------------------------------- specification
\* Date.now() does not go back, and it may not have advanced since the
\* last handler read it.
Dates == {now, now + 1}

\* One session whose devices and transport work, while it is connected:
\* every server message, every order of the decodes, playback and time.
Next ==
    \/ \E c \in CustomTexts : \E sel \in {NoScenario, Coffee} :
         StartSession(c, sel, "ok", 1)
    \/ MicResolve(1)
    \/ ConnOpen(1)
    \/ \E m \in ServerMessages(arrivals + 1) : \E d \in Dates :
         DeliverMsg(1, m, d, MaxMsgs)
    \/ \E m \in pending : \E d \in Dates : DecodeResolve(m, d)
    \/ \E s \in sources : Ended(s)
    \/ TimerFire
    \/ Tick

Spec == Init /\ [][Next]_vars

\* Sessions one after the other: startSession and endSession in every state
\* the presentation layer allows, every failure of the devices and of the
\* transport, plain messages.
NextLifecycle ==
    \/ \E c \in CustomTexts : \E sel \in {NoScenario, Coffee} :
         \E dev \in Devices : StartSession(c, sel, dev, MaxStarts)
    \/ \E k \in Attempts : MicResolve(k)
    \/ \E k \in Attempts : MicReject(k)
    \/ \E k \in Attempts : ConnOpen(k)
    \/ \E k \in Attempts : ConnError(k)
    \/ \E k \in Attempts : ConnClose(k)
    \/ \E k \in Attempts : CaptureFrame(k)
    \/ \E k \in Attempts : \E m \in PlainMessages(arrivals + 1) :
         \E d \in Dates : DeliverMsg(k, m, d, MaxPlainMsgs)
    \/ \E m \in pending : \E d \in Dates : DecodeResolve(m, d)
    \/ \E s \in sources : Ended(s)
    \/ TimerFire
    \/ EndSession

SpecLifecycle == Init /\ [][NextLifecycle]_vars

\* ================================================================ claims
Speakers == {"user", "model"}

\* The transcript events the step applies: what the step appends to hist.ev
\* (the empty sequence for a step that applies none).
Applied ==
    IF Len(hist'.ev) >= Len(hist.ev)
       /\ SubSeq(hist'.ev, 1, Len(hist.ev)) = hist.ev
    THEN SubSeq(hist'.ev, Len(hist.ev) + 1, Len(hist'.ev))
    ELSE <<>>

Kinds(evs) == { evs[i].kind : i \in DOMAIN evs }

RECURSIVE Concat(_)
Concat(evs) == IF evs = <<>> THEN <<>> ELSE Head(evs).text \o Concat(Tail(evs))

\* ------------------------------------------------------------------ C1
\* C1: the chunks started in one session, in the order they were started,
\* never overlap: each starts at or after the start of the one before it
\* plus that chunk's duration.
NoOverlap ==
    \A i \in 1..(Len(scheduled) - 1) :
        scheduled[i + 1].start >= scheduled[i].start + scheduled[i].dur

\* Two chunks were started, the later-arrived one first.
NoOverlapWitness ==
    /\ Len(scheduled) = 2
    /\ scheduled[1].arr > scheduled[2].arr
    /\ scheduled[1].dur = MaxDur

\* ------------------------------------------------------------------ C2
\* C2: chunks play in the order their messages arrived: of two started
\* chunks, the one whose message arrived first has the earlier start time,
\* whatever the order in which the decodes completed.
PlaybackInArrivalOrder ==
    \A i, j \in DOMAIN scheduled :
        scheduled[i].arr < scheduled[j].arr
            => scheduled[i].start < scheduled[j].start

\* ------------------------------------------------------------------ C3
\* C3: for each speaker the log holds at most one message of that speaker
\* with the partial flag set.
Partials(r) ==
    { i \in DOMAIN messages : messages[i].role = r /\ messages[i].isPartial }

AtMostOnePartialPerSpeaker ==
    \A r \in Speakers : Cardinality(Partials(r)) <= 1

\* ------------------------------------------------------------------ C4
\* The events applied since the log and the buffers were last empty are
\* fragments of a single speaker r followed by one turn-complete.
SingleSpeakerTurn(r) ==
    /\ hist.clean
    /\ Len(hist.ev) >= 2
    /\ Last(hist.ev).kind = "tc"
    /\ \A i \in 1..(Len(hist.ev) - 1) : hist.ev[i].kind = r

OneFinalMessage(r) ==
    /\ Len(messages) = 1
    /\ messages[1].role = r
    /\ messages[1].text = Concat(Front(hist.ev))
    /\ messages[1].isPartial = FALSE

\* C4 as claimed: from an empty log and empty buffers, fragments f1..fn of
\* one speaker followed by one turn-complete leave exactly one message, of
\* that speaker, final, with text f1 + ... + fn.
TurnYieldsOneFinalMessage ==
    \A r \in Speakers : SingleSpeakerTurn(r) => OneFinalMessage(r)

\* C4 as amended: the same, for fragments whose concatenation is not empty.
TurnWithTextYieldsOneFinalMessage ==
    \A r \in Speakers :
        SingleSpeakerTurn(r) /\ Concat(Front(hist.ev)) # <<>> => OneFinalMessage(r)

\* Two fragments of the user, the first with text, then a turn-complete.
TurnWitness ==
    /\ SingleSpeakerTurn("user")
    /\ Len(hist.ev) = 3
    /\ hist.ev[1].text # <<>>
    /\ OneFinalMessage("user")

\* ------------------------------------------------------------------ C5
\* C5: a step that processes a turn-complete marker, and nothing else, when
\* the last transcript event processed was a turn-complete too, changes
\* neither the log nor the two buffers.
CommitIdempotent ==
    [][ ( /\ hist.ev # <<>>
          /\ Last(hist.ev).kind = "tc"
          /\ Kinds(Applied) = {"tc"} )
        => UNCHANGED <<messages, currentInputTransRef, currentOutputTransRef>>
      ]_vars

\* A turn of the user was committed, and a second turn-complete followed.
CommitIdempotentWitness ==
    /\ Len(hist.ev) = 3
    /\ hist.ev[1].kind = "user"
    /\ hist.ev[1].text # <<>>
    /\ hist.ev[2].kind = "tc"
    /\ hist.ev[3].kind = "tc"
    /\ Len(messages) = 1

\* ------------------------------------------------------------------ C6
\* C6: a step that applies fragments and no turn-complete leaves every
\* message of a speaker it has no fragment for as it was, and keeps every
\* message of the log at its place (same position, id and role).
FragmentFrame ==
    [][ ( /\ Applied # <<>>
          /\ Kinds(Applied) \subseteq Speakers )
        => /\ Len(messages') >= Len(messages)
           /\ \A i \in DOMAIN messages :
                /\ messages'[i].id = messages[i].id
                /\ messages'[i].role = messages[i].role
                /\ messages[i].role \notin Kinds(Applied)
                     => messages'[i] = messages[i]
      ]_vars

\* Fragments of the two speakers interleave: the log holds a partial message
\* of the model after a partial message of the user, and the user's buffer
\* has grown since.
FragmentFrameWitness ==
    /\ Len(messages) = 3
    /\ messages[1].role = "user" /\ messages[1].isPartial
    /\ messages[2].role = "model" /\ messages[2].isPartial
    /\ messages[3].role = "user"
    /\ Last(hist.ev).kind = "user"

\* ------------------------------------------------------------------ C7
\* C7: within a session a message that is final stays as it is, at its
\* place, in every step; and a step that applies a fragment when the last
\* message of the log is final makes the log longer.
FinalIsImmutable ==
    [][ starts' = starts
        => /\ \A i \in DOMAIN messages :
                ~messages[i].isPartial
                  => i \in DOMAIN messages' /\ messages'[i] = messages[i]
           /\ ( /\ messages # <<>>
                /\ ~Last(messages).isPartial
                /\ Kinds(Applied) \cap Speakers # {} )
                => Len(messages') > Len(messages)
      ]_vars

\* A final message of the user is followed by a newer message of the user.
FinalIsImmutableWitness ==
    /\ Len(messages) = 2
    /\ messages[1].role = "user" /\ ~messages[1].isPartial
    /\ messages[2].role = "user"
    /\ messages[2].text # <<>>

\* ------------------------------------------------------------------ C8
\* The state endSession leaves.
Ended_ ==
    /\ status = "disconnected"
    /\ sourcesRef = {}
    /\ currentInputTransRef = <<>>
    /\ currentOutputTransRef = <<>>
    /\ currentStep = "setup"
    /\ audioMode = "idle"
    /\ sessionRef = 0
    /\ streamRef = 0
    /\ scriptProcessorRef = 0
    /\ inputContextRef.state # "running"
    /\ outputContextRef.state # "running"

\* C8: endSession can be called in every state, also before any session was
\* started; it leaves the status disconnected, the set of live sources and
\* the two buffers empty; and called in the state a call of it has left, it
\* changes nothing.
EndIsIdempotent ==
    [][ EndSession
        => /\ Ended_'
           /\ Ended_ => UNCHANGED <<uiVars, refVars, platformVars>>
      ]_vars

\* endSession was called while a source was live and a buffer held text.
EndIsIdempotentWitness ==
    /\ lastCall = "end"
    /\ Ended_
    /\ \E s \in sources : s.stopped
    /\ hist.ev # <<>>
    /\ Last(hist.ev).kind = "reset"

\* ------------------------------------------------------------------ C9
\* Every operation that was suspended has resolved, none of them by
\* failing, and every close that was asked for is done.
Settled ==
    /\ \A k \in Attempts : startPc[k] \in {"idle", "done"}
    /\ \A k \in Attempts : conn[k] \in {"none", "open", "closed"}
    /\ closeReq = {}
    /\ pending = {}

\* C9: once the operations that were suspended when endSession ran have
\* resolved, and before any other call, the status is disconnected, there
\* is no script processor and no live source, the buffers are empty and no
\* transcript event was applied to the log after the call.
PendingBecomesNoOp ==
    (lastCall = "end" /\ Settled)
        => /\ status = "disconnected"
           /\ scriptProcessorRef = 0
           /\ sourcesRef = {}
           /\ currentInputTransRef = <<>>
           /\ currentOutputTransRef = <<>>
           /\ hist.ev = <<>> \/ Last(hist.ev).kind = "reset"

\* ----------------------------------------------------------------- C10
\* What startSession requires: a credential, and a selected scenario or a
\* custom topic that holds a character other than a blank.
StartPrecondition(custom, selected) ==
    /\ API_KEY
    /\ \/ selected # NoScenario
       \/ \E i \in DOMAIN custom : custom[i] # " "

\* C10: startSession called without the credential, or without a scenario
\* and with an empty or blank custom topic, changes nothing: not the status,
\* the step or the log, no context, stream or connection is made.
FailedStartChangesNothing ==
    [][ \A c \in CustomTexts : \A sel \in {NoScenario, Coffee} :
          \A dev \in Devices :
            (~StartPrecondition(c, sel) /\ StartSession(c, sel, dev, MaxStarts))
              => UNCHANGED <<uiVars, refVars, platformVars>>
      ]_vars

\* startSession returned at its scenario check, the credential being there.
FailedStartWitness ==
    /\ lastCall = "reject"
    /\ API_KEY
    /\ status = "disconnected"
    /\ inputContextRef = NullCtx
    /\ \A k \in Attempts : conn[k] = "none" /\ mic[k] = "none"

\* ----------------------------------------------------------------- C11
\* The status is error or disconnected, and session k is what brought it
\* there: its transport has signalled onerror, its startSession has failed,
\* or its transport has signalled onclose.
TerminalFor(k) ==
    \/ status = "error" /\ (conn[k] = "errored" \/ startPc[k] = "failed")
    \/ status = "disconnected" /\ conn[k] = "closed"

\* C11: once session k has brought the status to error or to disconnected,
\* no callback of session k (onopen, onclose, onerror) changes the status.
StatusIsTerminal ==
    [][ \A k \in Attempts :
          (TerminalFor(k) /\ (ConnOpen(k) \/ ConnClose(k) \/ ConnError(k)))
            => status' = status
      ]_vars

\* ----------------------------------------------------------------- C12
\* The message m without its audio payload.
WithoutAudio(m) == [m EXCEPT !.audio = [kind |-> "none", dur |-> 0]]

\* C12: a message whose audio payload cannot be decoded leaves the status
\* connected, and the log and the two buffers as the same message without
\* the audio payload would leave them.
DecodeFailureIsIsolated ==
    [][ \A m \in ServerMessages(arrivals + 1) :
          (decodeFails(m.audio) /\ DeliverMsg(1, m, now, MaxMsgs))
            => LET t == handleTranscriptions(
                            TState(messages, currentInputTransRef,
                                   currentOutputTransRef, audioMode),
                            WithoutAudio(m), now)
               IN /\ status' = "connected"
                  /\ messages' = t.messages
                  /\ currentInputTransRef' = t.inBuf
                  /\ currentOutputTransRef' = t.outBuf
      ]_vars

\* ----------------------------------------------------------------- C13
\* The connections that are open and that no endSession has asked to close.
OpenConnections == { k \in Attempts : conn[k] = "open" /\ k \notin closeReq }

\* C13: at most one transport connection is open at any time, a connection
\* whose close is under way not counted.
AtMostOneOpenConnection == Cardinality(OpenConnections) <= 1

\* ----------------------------------------------------------------- C14
\* The fragment of the n-th message is the token n: a text is in arrival
\* order when its tokens increase.
InArrivalOrder(text) ==
    \A i, j \in DOMAIN text : i < j => text[i] < text[j]

\* C14: each buffer holds the fragments of its speaker in the order in which
\* their messages arrived.
FragmentsInArrivalOrder ==
    /\ InArrivalOrder(currentInputTransRef)
    /\ InArrivalOrder(currentOutputTransRef)

\* ----------------------------------------------------------------- C15
\* C15: when the decode of a chunk has completed and the chunk is started,
\* its start time is not before the current time of the output clock.
NeverStartsInThePast ==
    [][ \A m \in pending : \A d \in Dates :
          DecodeResolve(m, d) => nextStartTimeRef >= currentTime
      ]_vars

\* ----------------------------------------------------------------- C16
\* C16: a step that processes a turn-complete marker, and nothing else,
\* leaves the log as long as it was, leaves no partial message of a speaker
\* whose buffer held text, and leaves both buffers empty.
CommitAddsNoMessage ==
    [][ Kinds(Applied) = {"tc"}
        => /\ Len(messages') = Len(messages)
           /\ currentInputTransRef' = <<>>
           /\ currentOutputTransRef' = <<>>
      ]_vars

\* ----------------------------------------------------------------- C17
\* The last message of the log is a partial message of speaker r.
LastIsPartialOf(r) ==
    messages # <<>> /\ Last(messages).role = r /\ Last(messages).isPartial

\* The buffer of speaker r.
Buffer(r) == IF r = "user" THEN currentInputTransRef ELSE currentOutputTransRef

\* C17: a step that applies one fragment of speaker r, and nothing else:
\* when the last message is a partial one of r, it replaces that message's
\* text by the new buffer of r; otherwise it appends a partial message of r
\* whose text is the fragment.
UpsertRule ==
    [][ \A r \in Speakers :
          (Len(Applied) = 1 /\ Applied[1].kind = r)
            => IF LastIsPartialOf(r)
               THEN /\ Len(messages') = Len(messages)
                    /\ Last(messages').text = Buffer(r)'
               ELSE /\ Len(messages') = Len(messages) + 1
                    /\ Last(messages').role = r
                    /\ Last(messages').isPartial
                    /\ Last(messages').text = Applied[1].text
      ]_vars

\* ----------------------------------------------------------------- C18
\* C18: after endSession, and until the next startSession, neither the
\* onended callback of a source nor the expiry of a debounce timer takes
\* the audio indicator out of idle.
IndicatorStaysIdle ==
    [][ ( /\ lastCall = "end"
          /\ audioMode = "idle"
          /\ (TimerFire \/ \E s \in sources : Ended(s)) )
        => audioMode' = "idle"
      ]_vars

\* ----------------------------------------------------------------- C19
\* C19: no captured frame is sent while the status is not connected.
FramesOnlyWhileConnected == ~frameOutside

\* ----------------------------------------------------------------- C20
\* C20: the expiry of the debounce timer leaves the audio indicator at
\* speaking when a source is live.
DebounceKeepsSpeaking ==
    [][ (TimerFire /\ sourcesRef # {} /\ audioMode = "speaking")
        => audioMode' = "speaking"
      ]_vars

\* ----------------------------------------------------------------- C21
\* C21: the step in which attempt k of startSession fails, at the
\* allocation of an audio context or at the acquisition of the microphone,
\* sets the status to error; a failed attempt has no transport connection,
\* no microphone stream and no script processor; and no onopen of a failed
\* attempt runs, so the attempt never sets the status to connected.
DeviceFailureIsError ==
    [][ \A k \in Attempts :
          /\ (startPc[k] # "failed" /\ startPc'[k] = "failed")
                => status' = "error"
          /\ startPc'[k] = "failed"
                => /\ conn'[k] = "none"
                   /\ mic'[k] = "none"
                   /\ proc'[k] = NoProc
          /\ startPc[k] = "failed" => ~ConnOpen(k)
      ]_vars

\* Both attempts have failed, the second at the acquisition of the
\* microphone (its two audio contexts were allocated).
DeviceFailureWitness ==
    /\ \A k \in Attempts : startPc[k] = "failed"
    /\ inputContextRef = NewCtx(MaxStarts)
    /\ outputContextRef = NewCtx(MaxStarts)
    /\ status = "error"

\* ----------------------------------------------------------------- C22
\* C22: no two messages of the log have the same id (the id is the decimal
\* text of the clock value, which differs exactly when the values differ).
UniqueIds ==
    \A i, j \in DOMAIN messages :
        i # j => messages[i].id # messages[j].id

=============================================================================
